---- MODULE Spec2Model ----
(***************************************************************************)
(* A model of the SeLoger scraper core:                                    *)
(*   - SeLogerScraper._deep_scrape_summaries  (seloger_parser.py 153-174)  *)
(*   - SeLogerScraper._parse_search_results   (seloger_parser.py 87-149)   *)
(*   - SeLogerScraper._parse_listing_page     (seloger_parser.py 178-306)  *)
(*   - clean_text / extract_int               (html_cleaner.py 11-35)      *)
(*   - compute_delta                          (runner.py 95-115)           *)
(*   - main / read_previous_listings          (runner.py 78-93, 117-195)   *)
(*   - export_listings                        (exporter.py 10-40)          *)
(*                                                                         *)
(* An optional value (Optional[...] in the source, an attribute that may   *)
(* be absent) is the empty tuple for None and <<v>> for the value v.       *)
(***************************************************************************)
EXTENDS Integers, Sequences, FiniteSets, TLC

VARIABLES
    \* ---- _deep_scrape_summaries ----
    summaries,      \* the argument: a sequence of summary urls
    max_workers,    \* self.max_workers
    pc,             \* position of the calling thread
    nextSubmit,     \* index of the next summary the list comprehension submits
    workQueue,      \* the executor's FIFO work queue (task indices)
    numThreads,     \* number of worker threads the executor has started
    phase,          \* per task: where its worker() call is
    future,         \* per task: the Future's outcome
    yielded,        \* tasks as_completed has already yielded
    results,        \* the local list `results`
    fetchCalls,     \* per task: number of _fetch_url calls made for it
    failed,         \* per task index: its fetch or parse raised (the set F)
    \* ---- compute_delta ----
    previous,       \* the argument `previous`
    current,        \* the argument `current`
    delta,          \* the returned dict, once computed
    dpc,            \* "idle" | "ready" | "done"
    \* ---- _parse_search_results ----
    doc,            \* the parsed search page: its elements in document order
    cards,          \* the local `cards` (positions in doc)
    cardIdx,        \* position of the for-loop in `cards`
    listings,       \* the local `listings`
    keptCards,      \* for each entry of listings, the position in doc of its card
    raisedCards,    \* positions in doc of the cards whose processing raised
    spc,            \* "idle" | "select" | "loop" | "returned"
    \* ---- _parse_listing_page ----
    html,           \* the argument `html`: the raw text of the detail page
    page,           \* the parsed detail page: its elements in document order
    summary,        \* the argument `summary`
    record,         \* the returned dict `data`, once built
    lpc,            \* "idle" | "ready" | "done"
    \* ---- main ----
    files,          \* the file system: what each path holds
    config,         \* the settings main reads from the loaded configuration
    main_listings,  \* the local `listings` of main
    mpc,            \* position of main in the current run
    runs,           \* number of runs started so far
    filesAtStart,   \* history: the file system when the current run started
    exportedThisRun \* history: the current run has written its output file

orchVars == <<summaries, max_workers, pc, nextSubmit, workQueue, numThreads,
              phase, future, yielded, results, fetchCalls, failed>>

deltaVars == <<previous, current, delta, dpc>>

sumVars == <<doc, cards, cardIdx, listings, keptCards, raisedCards, spc>>

detVars == <<html, page, summary, record, lpc>>

mainVars == <<files, config, main_listings, mpc, runs, filesAtStart, exportedThisRun>>

vars == <<orchVars, deltaVars, sumVars, detVars, mainVars>>

None == <<>>
Some(v) == <<v>>
NoAttr == None

(***************************************************************************)
(* Bounds of the model.                                                    *)
(***************************************************************************)
MaxSummaries == 4
MaxWorkers == 2
MaxPrevLen == 2
MaxCurrLen == 3
MaxCards == 3
MaxPageNodes == 3
MaxFieldNodes == 2
MaxYearNodes == 2
MaxRuns == 2

RECURSIVE SeqsUpTo(_, _)
SeqsUpTo(S, n) ==
    IF n = 0 THEN {<<>>}
    ELSE LET shorter == SeqsUpTo(S, n - 1)
         IN  shorter \cup {Append(s, x) : s \in {t \in shorter : Len(t) = n - 1}, x \in S}

Range(s) == {s[i] : i \in 1..Len(s)}

(***************************************************************************)
(* Text and markup.                                                        *)
(*                                                                         *)
(* A text is a tuple of tokens: single characters where the code looks at  *)
(* them (digits, white space, "-", the euro sign, "/", ":"), and opaque    *)
(* words (runs of other characters) elsewhere.  "/" is the only token that *)
(* begins with a slash and a token ending in ":" is the only one holding a *)
(* colon.                                                                  *)
(***************************************************************************)
NBSP == "nbsp"
Digits == {"0", "1", "2", "3", "4", "5", "6", "7", "8", "9"}
IsDigit(c) == c \in Digits
\* \s of a str pattern: ASCII white space and the no-break space.
IsSpace(c) == c \in {" ", "\n", "\t", NBSP}

DigitValue(c) ==
    CASE c = "0" -> 0 [] c = "1" -> 1 [] c = "2" -> 2 [] c = "3" -> 3
      [] c = "4" -> 4 [] c = "5" -> 5 [] c = "6" -> 6 [] c = "7" -> 7
      [] c = "8" -> 8 [] c = "9" -> 9

RECURSIVE DropSpaces(_)
DropSpaces(t) ==
    IF t # <<>> /\ IsSpace(t[1]) THEN DropSpaces(Tail(t)) ELSE t

\* _WHITESPACE_RE.sub(" ", text)
RECURSIVE Collapse(_)
Collapse(t) ==
    IF t = <<>> THEN <<>>
    ELSE IF IsSpace(t[1]) THEN <<" ">> \o Collapse(DropSpaces(t))
    ELSE <<t[1]>> \o Collapse(Tail(t))

RECURSIVE DropTrailingSpaces(_)
DropTrailingSpaces(t) ==
    IF t # <<>> /\ IsSpace(t[Len(t)])
    THEN DropTrailingSpaces(SubSeq(t, 1, Len(t) - 1)) ELSE t

\* str.strip()
Strip(t) == DropTrailingSpaces(DropSpaces(t))

\* clean_text(value); for None the result is the empty text, as for "".
clean_text(value) == Strip(Collapse(value))

(***************************************************************************)
(* An element: tag, data-test ("" when absent), class list, href, src,     *)
(* data-src (optional texts), its own text and, for a container, the       *)
(* elements inside it in document order.                                   *)
(***************************************************************************)
El(tag, text) ==
    [tag |-> tag, dt |-> "", cls |-> {}, href |-> NoAttr, src |-> NoAttr,
     dsrc |-> NoAttr, text |-> text, kids |-> <<>>]

\* soup.find / select_one return the first match in document order: the
\* least of the matching positions, 0 when nothing matches.
FirstIndex(positions) ==
    IF positions = {} THEN 0
    ELSE CHOOSE i \in positions : \A j \in positions : i <= j

\* data-test values matching re.compile(".*location.*")
LocationDataTests == {"sl-card-location", "location"}
MatchesLocationDataTest(n) == n.dt \in LocationDataTests

\* "seloger.com" in src
SiteTokens == {"www.seloger.com", "img.seloger.com"}
ContainsSite(src) == \E i \in 1..Len(src) : src[i] \in SiteTokens

\* src = img.get("data-src") or img.get("src"): a missing or empty
\* attribute is falsy.
PreferredSrc(img) ==
    IF img.dsrc # NoAttr /\ img.dsrc[1] # <<>> THEN img.dsrc ELSE img.src

\* The photo loop: every img whose preferred source names the site, once.
RECURSIVE CollectPhotos(_, _)
CollectPhotos(nodes, photos) ==
    IF nodes = <<>> THEN photos
    ELSE LET n == nodes[1]
             src == PreferredSrc(n)
             keep == /\ n.tag = "img"
                     /\ src # NoAttr
                     /\ src[1] # <<>>
                     /\ ContainsSite(src[1])
                     /\ src[1] \notin Range(photos)
         IN  CollectPhotos(Tail(nodes), IF keep THEN Append(photos, src[1]) ELSE photos)

(***************************************************************************)
(* extract_int and the price pattern.                                      *)
(***************************************************************************)
\* re.compile(r"\d[\d\s]*€").search(text): a digit, then digits and white
\* space, then the euro sign.
MatchesPrice(t) ==
    \E i \in 1..Len(t) : \E j \in (i + 1)..Len(t) :
        /\ IsDigit(t[i])
        /\ t[j] = "€"
        /\ \A k \in (i + 1)..(j - 1) : IsDigit(t[k]) \/ IsSpace(t[k])

\* Where _INT_RE = (-?\d[\d\s]*) first matches: 0 when nowhere.
IntMatchStart(t) ==
    LET Starts(i) == \/ IsDigit(t[i])
                     \/ t[i] = "-" /\ i < Len(t) /\ IsDigit(t[i + 1])
    IN  IF \E i \in 1..Len(t) : Starts(i)
        THEN CHOOSE i \in 1..Len(t) : Starts(i) /\ \A j \in 1..(i - 1) : ~Starts(j)
        ELSE 0

\* The greedy run [\d\s]* from position i on.
RECURSIVE DigitSpaceRun(_, _)
DigitSpaceRun(t, i) ==
    IF i <= Len(t) /\ (IsDigit(t[i]) \/ IsSpace(t[i]))
    THEN <<t[i]>> \o DigitSpaceRun(t, i + 1) ELSE <<>>

\* match.group(1)
IntMatchText(t) ==
    LET i == IntMatchStart(t)
    IN  IF t[i] = "-" THEN <<"-", t[i + 1]>> \o DigitSpaceRun(t, i + 2)
        ELSE <<t[i]>> \o DigitSpaceRun(t, i + 1)

\* .replace(" ", "").replace(" ", "")
RemoveSeparators(t) == SelectSeq(t, LAMBDA c : c \notin {" ", NBSP})

RECURSIVE DigitsValue(_)
DigitsValue(t) ==
    IF t = <<>> THEN 0
    ELSE 10 * DigitsValue(SubSeq(t, 1, Len(t) - 1)) + DigitValue(t[Len(t)])

\* int(num): white space around the number is ignored, white space inside
\* it is a ValueError, which extract_int turns into None.
IntOf(num) ==
    LET body == Strip(num)
        neg == body # <<>> /\ body[1] = "-"
        ds == IF neg THEN Tail(body) ELSE body
    IN  IF ds # <<>> /\ \A k \in 1..Len(ds) : IsDigit(ds[k])
        THEN Some(IF neg THEN 0 - DigitsValue(ds) ELSE DigitsValue(ds))
        ELSE None

\* extract_int(value), value a text: `if not value` is the empty text.
extract_int(value) ==
    IF value = <<>> THEN None
    ELSE IF IntMatchStart(value) = 0 THEN None
    ELSE IntOf(RemoveSeparators(IntMatchText(value)))

(***************************************************************************)
(* Enrichment orchestrator: _deep_scrape_summaries.                        *)
(***************************************************************************)
SummaryUrls == {"u1", "u2"}

Tasks == 1..Len(summaries)

\* A Future: not done yet, done with worker()'s return value, or done with
\* the exception worker() let escape.
Pending == [state |-> "pending"]
Returned(v) == [state |-> "result", value |-> v]
Raised == [state |-> "exception"]

\* What worker() returns: None, or the detail dict.
NoneValue == [kind |-> "none"]

\* The record worker() returns for task i on success (the detail dict; only
\* the url key, copied from the summary, matters to the orchestrator).
DetailRecord(i) == [kind |-> "dict", task |-> i, url |-> summaries[i]]

\* worker(): try ... except Exception: return None  (a failure is swallowed).
WorkerOutcomeRaises(raised, i) ==
    IF raised THEN Raised ELSE Returned(DetailRecord(i))
WorkerOutcome(raised, i) ==
    IF raised THEN Returned(NoneValue) ELSE Returned(DetailRecord(i))

\* ThreadPoolExecutor._adjust_thread_count: a new thread only below the cap.
\* (Executors that reuse an idle thread instead start fewer threads; every
\* schedule they allow is one of this model's in which a thread stays idle.)
MayStartThreadAlways(n, w) == TRUE
MayStartThread(n, w) == n < w

\* `if result:` -- a dict with keys is truthy, None is not.
Truthy(v) == v.kind = "dict"

Running == {i \in Tasks : phase[i] \in {"fetching", "parsing"}}

\* as_completed(futures) is exhausted once every future has been yielded.
AllYieldedFirstOnly == yielded # {} \/ Tasks = {}
AllYielded == yielded = Tasks

InitOrch ==
    /\ summaries \in SeqsUpTo(SummaryUrls, MaxSummaries)
    /\ max_workers \in 1..MaxWorkers
    /\ pc = "submit"
    /\ nextSubmit = 1
    /\ workQueue = <<>>
    /\ numThreads = 0
    /\ phase = [i \in 1..Len(summaries) |-> "unsubmitted"]
    /\ future = [i \in 1..Len(summaries) |-> Pending]
    /\ yielded = {}
    /\ results = <<>>
    /\ fetchCalls = [i \in 1..Len(summaries) |-> 0]
    /\ failed = {}

\* pool.submit(worker, s): enqueue the work item, maybe start a thread.
Submit ==
    /\ pc = "submit"
    /\ nextSubmit <= Len(summaries)
    /\ workQueue' = Append(workQueue, nextSubmit)
    /\ phase' = [phase EXCEPT ![nextSubmit] = "queued"]
    /\ numThreads' = IF MayStartThread(numThreads, max_workers)
                     THEN numThreads + 1 ELSE numThreads
    /\ nextSubmit' = nextSubmit + 1
    /\ UNCHANGED <<summaries, max_workers, pc, future, yielded, results,
                   fetchCalls, failed>>
    /\ UNCHANGED <<deltaVars, sumVars, detVars, mainVars>>

\* The list comprehension is done; the as_completed loop starts.
StartCollect ==
    /\ pc = "submit"
    /\ nextSubmit > Len(summaries)
    /\ pc' = "collect"
    /\ UNCHANGED <<summaries, max_workers, nextSubmit, workQueue, numThreads,
                   phase, future, yielded, results, fetchCalls, failed>>
    /\ UNCHANGED <<deltaVars, sumVars, detVars, mainVars>>

\* An idle worker thread takes the head of the queue and enters worker().
TakeTask ==
    /\ workQueue # <<>>
    /\ Cardinality(Running) < numThreads
    /\ phase' = [phase EXCEPT ![Head(workQueue)] = "fetching"]
    /\ workQueue' = Tail(workQueue)
    /\ UNCHANGED <<summaries, max_workers, pc, nextSubmit, numThreads, future,
                   yielded, results, fetchCalls, failed>>
    /\ UNCHANGED <<deltaVars, sumVars, detVars, mainVars>>

\* html = self._fetch_url(summary.url) returns.
FetchOk(i) ==
    /\ phase[i] = "fetching"
    /\ fetchCalls' = [fetchCalls EXCEPT ![i] = @ + 1]
    /\ phase' = [phase EXCEPT ![i] = "parsing"]
    /\ UNCHANGED <<summaries, max_workers, pc, nextSubmit, workQueue,
                   numThreads, future, yielded, results, failed>>
    /\ UNCHANGED <<deltaVars, sumVars, detVars, mainVars>>

\* self._fetch_url raises (network error, bad status, timeout).
FetchFail(i) ==
    /\ phase[i] = "fetching"
    /\ fetchCalls' = [fetchCalls EXCEPT ![i] = @ + 1]
    /\ phase' = [phase EXCEPT ![i] = "finished"]
    /\ future' = [future EXCEPT ![i] = WorkerOutcome(TRUE, i)]
    /\ failed' = failed \cup {i}
    /\ UNCHANGED <<summaries, max_workers, pc, nextSubmit, workQueue,
                   numThreads, yielded, results>>
    /\ UNCHANGED <<deltaVars, sumVars, detVars, mainVars>>

\* detail = self._parse_listing_page(html, summary) returns.
ParseOk(i) ==
    /\ phase[i] = "parsing"
    /\ phase' = [phase EXCEPT ![i] = "finished"]
    /\ future' = [future EXCEPT ![i] = WorkerOutcome(FALSE, i)]
    /\ UNCHANGED <<summaries, max_workers, pc, nextSubmit, workQueue,
                   numThreads, yielded, results, fetchCalls, failed>>
    /\ UNCHANGED <<deltaVars, sumVars, detVars, mainVars>>

\* self._parse_listing_page raises.
ParseFail(i) ==
    /\ phase[i] = "parsing"
    /\ phase' = [phase EXCEPT ![i] = "finished"]
    /\ future' = [future EXCEPT ![i] = WorkerOutcome(TRUE, i)]
    /\ failed' = failed \cup {i}
    /\ UNCHANGED <<summaries, max_workers, pc, nextSubmit, workQueue,
                   numThreads, yielded, results, fetchCalls>>
    /\ UNCHANGED <<deltaVars, sumVars, detVars, mainVars>>

\* One iteration of `for f in as_completed(futures)`: any finished future not
\* yet yielded; f.result() re-raises a task's exception in the caller.
Collect(i) ==
    /\ pc = "collect"
    /\ i \notin yielded
    /\ future[i].state # "pending"
    /\ yielded' = yielded \cup {i}
    /\ IF future[i].state = "exception"
       THEN /\ pc' = "raised"
            /\ UNCHANGED results
       ELSE /\ pc' = pc
            /\ results' = IF Truthy(future[i].value)
                          THEN Append(results, future[i].value)
                          ELSE results
    /\ UNCHANGED <<summaries, max_workers, nextSubmit, workQueue, numThreads,
                   phase, future, fetchCalls, failed>>
    /\ UNCHANGED <<deltaVars, sumVars, detVars, mainVars>>

\* The loop ends; the with-block exits through shutdown(wait=True).
ExitLoop ==
    /\ pc = "collect"
    /\ AllYielded
    /\ pc' = "shutdown"
    /\ UNCHANGED <<summaries, max_workers, nextSubmit, workQueue, numThreads,
                   phase, future, yielded, results, fetchCalls, failed>>
    /\ UNCHANGED <<deltaVars, sumVars, detVars, mainVars>>

\* shutdown(wait=True) joins the worker threads, then `return results`.
ReturnResults ==
    /\ pc = "shutdown"
    /\ workQueue = <<>>
    /\ Running = {}
    /\ pc' = "returned"
    /\ UNCHANGED <<summaries, max_workers, nextSubmit, workQueue, numThreads,
                   phase, future, yielded, results, fetchCalls, failed>>
    /\ UNCHANGED <<deltaVars, sumVars, detVars, mainVars>>

\* The orchestrator is not running.
IdleOrch ==
    /\ summaries = <<>>
    /\ max_workers = 1
    /\ pc = "idle"
    /\ nextSubmit = 1
    /\ workQueue = <<>>
    /\ numThreads = 0
    /\ phase = <<>>
    /\ future = <<>>
    /\ yielded = {}
    /\ results = <<>>
    /\ fetchCalls = <<>>
    /\ failed = {}

NextOrch ==
    \/ Submit
    \/ StartCollect
    \/ TakeTask
    \/ \E i \in Tasks : FetchOk(i)
    \/ \E i \in Tasks : FetchFail(i)
    \/ \E i \in Tasks : ParseOk(i)
    \/ \E i \in Tasks : ParseFail(i)
    \/ \E i \in Tasks : Collect(i)
    \/ ExitLoop
    \/ ReturnResults

(***************************************************************************)
(* Delta engine: compute_delta.                                            *)
(***************************************************************************)
\* A listing dict, reduced to its "url" entry (NoneUrl when the key is
\* missing or null, "" when empty) and a tag that tells apart two dicts with
\* the same url.
NoneUrl == "<None>"
DeltaRecords ==
    {[url |-> "a", tag |-> 1], [url |-> "a", tag |-> 2], [url |-> "b", tag |-> 1],
     [url |-> "b", tag |-> 2], [url |-> "c", tag |-> 1], [url |-> "", tag |-> 1], [url |-> NoneUrl, tag |-> 1]}

\* `if item.get("url")`: None and the empty string are falsy.
UrlTruthy(u) == u # NoneUrl /\ u # ""

\* The same index with the first item kept under a key that comes again.
RECURSIVE IndexByUrlFirst(_)
IndexByUrlFirst(items) ==
    IF items = <<>> THEN <<>>
    ELSE LET rest == IndexByUrlFirst(SubSeq(items, 1, Len(items) - 1))
             last == items[Len(items)]
         IN  IF UrlTruthy(last.url) /\ last.url \notin DOMAIN rest
             THEN [k \in DOMAIN rest \cup {last.url} |->
                      IF k = last.url THEN last ELSE rest[k]]
             ELSE rest

\* {item.get("url"): item for item in items if item.get("url")}: a later
\* item replaces an earlier one under the same key.
RECURSIVE IndexByUrl(_)
IndexByUrl(items) ==
    IF items = <<>> THEN <<>>
    ELSE LET rest == IndexByUrl(SubSeq(items, 1, Len(items) - 1))
             last == items[Len(items)]
         IN  IF UrlTruthy(last.url)
             THEN [k \in DOMAIN rest \cup {last.url} |->
                      IF k = last.url THEN last ELSE rest[k]]
             ELSE rest

\* new_urls = curr_urls - prev_urls
NewUrlsAll(prev_urls, curr_urls) == curr_urls
NewUrls(prev_urls, curr_urls) == curr_urls \ prev_urls

\* removed_urls = prev_urls - curr_urls
RemovedUrls(prev_urls, curr_urls) == prev_urls \ curr_urls

\* The orders in which a set can be iterated.
IterationOrders(S) == {s \in [1..Cardinality(S) -> S] : Range(s) = S}

InitDelta ==
    /\ previous \in SeqsUpTo(DeltaRecords, MaxPrevLen)
    /\ current \in SeqsUpTo(DeltaRecords, MaxCurrLen)
    /\ delta = None
    /\ dpc = "ready"

IdleDelta ==
    /\ previous = <<>>
    /\ current = <<>>
    /\ delta = None
    /\ dpc = "idle"

\* compute_delta(previous, current); the two list comprehensions iterate
\* sets, whose order is not fixed.
ComputeDelta ==
    /\ dpc = "ready"
    /\ LET prev_by_url == IndexByUrl(previous)
           curr_by_url == IndexByUrl(current)
           prev_urls == DOMAIN prev_by_url
           curr_urls == DOMAIN curr_by_url
           new_urls == NewUrls(prev_urls, curr_urls)
           removed_urls == RemovedUrls(prev_urls, curr_urls)
       IN  \E no \in IterationOrders(new_urls), ro \in IterationOrders(removed_urls) :
              delta' = [new |-> [k \in 1..Len(no) |-> curr_by_url[no[k]]],
                        removed |-> [k \in 1..Len(ro) |-> prev_by_url[ro[k]]],
                        current |-> current]
    /\ dpc' = "done"
    /\ UNCHANGED <<previous, current>>
    /\ UNCHANGED <<orchVars, sumVars, detVars, mainVars>>

NextDelta == ComputeDelta

(***************************************************************************)
(* Summary extractor: _parse_search_results.                               *)
(***************************************************************************)
\* The site's origin, prefixed to a path that starts with "/".
Origin == <<"https:", "/", "/", "www.seloger.com">>

\* card_selectors, in order: "div.c-pa-list", "div.ListingCell",
\* "article[data-test='sl-card-result']".
NumSelectors == 3
MatchesSelector(k, e) ==
    CASE k = 1 -> e.tag = "div" /\ "c-pa-list" \in e.cls
      [] k = 2 -> e.tag = "div" /\ "ListingCell" \in e.cls
      [] k = 3 -> e.tag = "article" /\ e.dt = "sl-card-result"

\* soup.select(selector): the positions of the matching elements, in
\* document order.
Select(k) ==
    SelectSeq([i \in 1..Len(doc) |-> i], LAMBDA i : MatchesSelector(k, doc[i]))

\* The selector loop: `cards` after the loop is the result of the first
\* selector that matched anything (the loop breaks there), else empty.
RECURSIVE SelectFrom(_)
SelectFrom(k) ==
    IF k > NumSelectors THEN <<>>
    ELSE IF Select(k) # <<>> THEN Select(k)
    ELSE SelectFrom(k + 1)

\* The same loop without its break: every selector's matches end up merged.
CardsFoundMerged ==
    SelectSeq([i \in 1..Len(doc) |-> i],
              LAMBDA i : \E k \in 1..NumSelectors : MatchesSelector(k, doc[i]))
CardsFound == SelectFrom(1)

\* card.select_one("h2, h3, h4, a[data-test='sl-card-title']"): a selector
\* group matches in document order.
IsTitleElement(n) ==
    \/ n.tag \in {"h2", "h3", "h4"}
    \/ n.tag = "a" /\ n.dt = "sl-card-title"

DefaultTitle == <<"Property listing">>

\* title = clean_text(title_el.get_text()) if title_el else "Property listing"
CardTitle(card) ==
    LET i == FirstIndex({p \in 1..Len(card.kids) : IsTitleElement(card.kids[p])})
    IN  IF i # 0 THEN clean_text(card.kids[i].text) ELSE DefaultTitle

\* card.find("a", href=True): the first link that has the attribute at all.
IsHrefLink(n) == n.tag = "a" /\ n.href # NoAttr

\* url.startswith("/") => the origin is prefixed.
StartsWithSlash(url) == url # <<>> /\ url[1] = "/"
Absolutized(url) == IF StartsWithSlash(url) THEN Origin \o url ELSE url

\* url = link_el["href"] if link_el else "", then the rewrite.
CardUrl(card) ==
    LET i == FirstIndex({p \in 1..Len(card.kids) : IsHrefLink(card.kids[p])})
    IN  Absolutized(IF i # 0 THEN card.kids[i].href[1] ELSE <<>>)

\* class_=re.compile("Location", re.I)
LocationClasses == {"Location", "CardLocation", "card-location"}
IsLocationParagraph(n) == n.tag = "p" /\ n.cls \cap LocationClasses # {}

\* loc_el = card.find(attrs={"data-test": ...}) or card.find("p", class_=...)
\* (an element is truthy whatever its content);
\* location = clean_text(loc_el.get_text()) if loc_el else None
CardLocation(card) ==
    LET i == FirstIndex({p \in 1..Len(card.kids) : MatchesLocationDataTest(card.kids[p])})
        j == FirstIndex({p \in 1..Len(card.kids) : IsLocationParagraph(card.kids[p])})
    IN  IF i # 0 THEN Some(clean_text(card.kids[i].text))
        ELSE IF j # 0 THEN Some(clean_text(card.kids[j].text))
        ELSE None

HasPriceText(n) == MatchesPrice(n.text)

\* price_el = card.find(string=...); price = extract_int(price_el) if price_el else None
CardPrice(card) ==
    LET i == FirstIndex({p \in 1..Len(card.kids) : HasPriceText(card.kids[p])})
    IN  IF i # 0 THEN extract_int(card.kids[i].text) ELSE None

\* `if not url: continue`
SkipsCardNever(url) == FALSE
SkipsCard(url) == url = <<>>

ListingSummary(card) ==
    [title |-> CardTitle(card), url |-> CardUrl(card),
     location |-> CardLocation(card), price |-> CardPrice(card),
     photos |-> CollectPhotos(card.kids, <<>>)]

\* Sample markup of a search page.
Link(href) == [El("a", <<"voir">>) EXCEPT !.href = Some(href)]

SampleHrefLists ==
    { <<>>,                                         \* no link with an href
      << <<>> >>,                                   \* href=""
      << <<"/", "annonces/1.htm">> >>,              \* site-relative
      << <<"annonce/1.htm">> >>,                    \* document-relative
      << <<"#">> >>,                                \* fragment only
      << <<"https:", "/", "/", "www.seloger.com", "/", "annonces/2.htm">> >>,
      << <<>>, <<"/", "annonces/3.htm">> >> }       \* empty href first

SampleContainers ==
    { [El("div", <<>>) EXCEPT !.cls = {"c-pa-list"}],
      [El("div", <<>>) EXCEPT !.cls = {"ListingCell"}],
      [El("div", <<>>) EXCEPT !.cls = {"c-pa-list", "ListingCell"}],
      [El("article", <<>>) EXCEPT !.dt = "sl-card-result"],
      [El("div", <<>>) EXCEPT !.cls = {"footer"}] }

SampleCardBody(hrefs) ==
    << El("h2", <<" ", "Appartement", " ">>) >>
    \o [k \in 1..Len(hrefs) |-> Link(hrefs[k])]
    \o << [El("p", <<"Paris", "\n", "15">>) EXCEPT !.cls = {"CardLocation"}],
          El("span", <<"1", " ", "2", "0", "0", " ", "€">>),
          [El("img", <<>>) EXCEPT !.src = Some(<<"https:", "/", "/", "img.seloger.com", "/", "p.jpg">>)] >>

\* Every link variant in an old-style card, and one well-formed card (or
\* non-card) of every container kind.
SampleElements ==
    {[[El("div", <<>>) EXCEPT !.cls = {"c-pa-list"}] EXCEPT !.kids = SampleCardBody(h)] :
        h \in SampleHrefLists}
    \cup {[c EXCEPT !.kids = SampleCardBody(<< <<"/", "annonces/1.htm">> >>)] :
            c \in SampleContainers}

InitSummary ==
    /\ doc \in SeqsUpTo(SampleElements, MaxCards)
    /\ cards = <<>>
    /\ cardIdx = 0
    /\ listings = <<>>
    /\ keptCards = <<>>
    /\ raisedCards = {}
    /\ spc = "select"

IdleSummary ==
    /\ doc = <<>>
    /\ cards = <<>>
    /\ cardIdx = 0
    /\ listings = <<>>
    /\ keptCards = <<>>
    /\ raisedCards = {}
    /\ spc = "idle"

\* Lines 98-107: the selector loop; with no card at all, `return []`.
SelectCards ==
    /\ spc = "select"
    /\ cards' = CardsFound
    /\ IF CardsFound = <<>>
       THEN spc' = "returned" /\ cardIdx' = 0
       ELSE spc' = "loop" /\ cardIdx' = 1
    /\ UNCHANGED <<doc, listings, keptCards, raisedCards>>
    /\ UNCHANGED <<orchVars, deltaVars, detVars, mainVars>>

\* One iteration of `for card in cards` that runs to its end: the card is
\* skipped without a url, appended otherwise.
ProcessCard ==
    /\ spc = "loop"
    /\ cardIdx <= Len(cards)
    /\ LET card == doc[cards[cardIdx]]
       IN  IF SkipsCard(CardUrl(card))
           THEN UNCHANGED <<listings, keptCards>>
           ELSE /\ listings' = Append(listings, ListingSummary(card))
                /\ keptCards' = Append(keptCards, cards[cardIdx])
    /\ cardIdx' = cardIdx + 1
    /\ UNCHANGED <<doc, cards, raisedCards, spc>>
    /\ UNCHANGED <<orchVars, deltaVars, detVars, mainVars>>

\* One iteration in which something raises: `except Exception` logs it and
\* the loop goes on with the next card.
CardRaises ==
    /\ spc = "loop"
    /\ cardIdx <= Len(cards)
    /\ raisedCards' = raisedCards \cup {cards[cardIdx]}
    /\ cardIdx' = cardIdx + 1
    /\ UNCHANGED <<doc, cards, listings, keptCards, spc>>
    /\ UNCHANGED <<orchVars, deltaVars, detVars, mainVars>>

\* `return listings`
ReturnListings ==
    /\ spc = "loop"
    /\ cardIdx > Len(cards)
    /\ spc' = "returned"
    /\ UNCHANGED <<doc, cards, cardIdx, listings, keptCards, raisedCards>>
    /\ UNCHANGED <<orchVars, deltaVars, detVars, mainVars>>

NextSummary ==
    \/ SelectCards
    \/ ProcessCard
    \/ CardRaises
    \/ ReturnListings

(***************************************************************************)
(* Detail extractor: _parse_listing_page.  Of the returned dict the keys   *)
(* title, description, price, location, photos, construction_date,         *)
(* publisher_name, publisher_email, publisher_phone and url are modelled.  *)
(***************************************************************************)
\* Every element of the page in document order: a container, then what is
\* inside it.
RECURSIVE Flatten(_)
Flatten(nodes) ==
    IF nodes = <<>> THEN <<>>
    ELSE <<nodes[1]>> \o nodes[1].kids \o Flatten(Tail(nodes))

\* title = summary.title; title_el = soup.find("h1");
\* if title_el: title = clean_text(title_el.get_text()) or title
PageTitle(all, s) ==
    LET i == FirstIndex({p \in 1..Len(all) : all[p].tag = "h1"})
    IN  IF i # 0 /\ clean_text(all[i].text) # <<>>
        THEN clean_text(all[i].text) ELSE s.title

\* The description lookups in the order the code tries them:
\* attrs data-test="sl-price-description", "div.Description",
\* "section[data-test='sl-description']", "div.c-pa-list-details__text".
NumDescriptionLookups == 4
MatchesDescription(k, n) ==
    CASE k = 1 -> n.dt = "sl-price-description"
      [] k = 2 -> n.tag = "div" /\ "Description" \in n.cls
      [] k = 3 -> n.tag = "section" /\ n.dt = "sl-description"
      [] k = 4 -> n.tag = "div" /\ "c-pa-list-details__text" \in n.cls

\* The same search with the lookups tried from the last to the first.
RECURSIVE DescriptionElementReversed(_, _)
DescriptionElementReversed(all, k) ==
    IF k > NumDescriptionLookups THEN 0
    ELSE LET i == FirstIndex({p \in 1..Len(all) :
                                 MatchesDescription(NumDescriptionLookups + 1 - k, all[p])})
         IN  IF i # 0 THEN i ELSE DescriptionElementReversed(all, k + 1)

\* desc_el: the first element of the first lookup, from k on, that finds
\* one (0 when none does); an element found ends the search.
RECURSIVE DescriptionElement(_, _)
DescriptionElement(all, k) ==
    IF k > NumDescriptionLookups THEN 0
    ELSE LET i == FirstIndex({p \in 1..Len(all) : MatchesDescription(k, all[p])})
         IN  IF i # 0 THEN i ELSE DescriptionElement(all, k + 1)

\* description = clean_text(desc_el.get_text()) if desc_el, else ""
PageDescription(all) ==
    LET i == DescriptionElement(all, 1)
    IN  IF i # 0 THEN clean_text(all[i].text) ELSE <<>>

\* price = summary.price; price_el = soup.find(string=...);
\* if price_el: price = extract_int(price_el)
PagePrice(all, s) ==
    LET i == FirstIndex({p \in 1..Len(all) : HasPriceText(all[p])})
    IN  IF i # 0 THEN extract_int(all[i].text) ELSE s.price

\* class_=re.compile("Localisation|Adresse", re.I)
AddressClasses == {"Localisation", "Adresse", "adresse"}
IsAddressParagraph(n) == n.tag = "p" /\ n.cls \cap AddressClasses # {}

\* location = summary.location; the data-test lookup, then the paragraph
\* lookup; if loc_el: location = clean_text(loc_el.get_text())
PageLocation(all, s) ==
    LET i == FirstIndex({p \in 1..Len(all) : MatchesLocationDataTest(all[p])})
        j == FirstIndex({p \in 1..Len(all) : IsAddressParagraph(all[p])})
    IN  IF i # 0 THEN Some(clean_text(all[i].text))
        ELSE IF j # 0 THEN Some(clean_text(all[j].text))
        ELSE s.location

\* agency_selectors, in order: "div[data-test='sl-contact-info']",
\* "div.AgencyCard", "div[data-test='agency-card']".
NumAgencySelectors == 3
MatchesAgency(k, n) ==
    CASE k = 1 -> n.tag = "div" /\ n.dt = "sl-contact-info"
      [] k = 2 -> n.tag = "div" /\ "AgencyCard" \in n.cls
      [] k = 3 -> n.tag = "div" /\ n.dt = "agency-card"

\* The agency element the selector loop stops at (it breaks at the first
\* selector that finds one): its position, 0 when no selector finds any.
RECURSIVE AgencyElement(_, _)
AgencyElement(all, k) ==
    IF k > NumAgencySelectors THEN 0
    ELSE LET i == FirstIndex({p \in 1..Len(all) : MatchesAgency(k, all[p])})
         IN  IF i # 0 THEN i ELSE AgencyElement(all, k + 1)

\* re.compile(r"\+?\d[\d\s]{6,}").search(text)
MatchesPhone(t) ==
    \E i \in 1..Len(t) :
        /\ IsDigit(t[i])
        /\ i + 6 <= Len(t)
        /\ \A k \in (i + 1)..(i + 6) : IsDigit(t[k]) \/ IsSpace(t[k])

\* href=re.compile(r"mailto:", re.I) / re.compile(r"tel:", re.I)
HrefHas(n, tokens) ==
    n.tag = "a" /\ n.href # NoAttr /\ \E i \in 1..Len(n.href[1]) : n.href[1][i] \in tokens
IsMailtoLink(n) == HrefHas(n, {"mailto:", "MAILTO:"})
IsTelLink(n) == HrefHas(n, {"tel:", "TEL:"})

\* href.split(":", 1)[-1]: what follows the first colon.
ColonTokens == {"mailto:", "MAILTO:", "tel:", "TEL:", "http:", "https:"}
AfterFirstColon(h) ==
    LET i == FirstIndex({p \in 1..Len(h) : h[p] \in ColonTokens})
    IN  IF i # 0 THEN SubSeq(h, i + 1, Len(h)) ELSE h

\* `if not publisher_phone`: None and the empty text are falsy.
Falsy(opt) == opt = None \/ opt[1] = <<>>

\* Inside the agency element: name from the first h2/h3, phone from the first
\* text with a phone-like digit run, email from the first mailto: link.
AgencyName(agency) ==
    LET i == FirstIndex({p \in 1..Len(agency.kids) : agency.kids[p].tag \in {"h2", "h3"}})
    IN  IF i # 0 THEN Some(clean_text(agency.kids[i].text)) ELSE None
AgencyPhone(agency) ==
    LET i == FirstIndex({p \in 1..Len(agency.kids) : MatchesPhone(agency.kids[p].text)})
    IN  IF i # 0 THEN Some(clean_text(agency.kids[i].text)) ELSE None
AgencyEmail(agency) ==
    LET i == FirstIndex({p \in 1..Len(agency.kids) : IsMailtoLink(agency.kids[p])})
    IN  IF i # 0 THEN Some(AfterFirstColon(agency.kids[i].href[1])) ELSE None

\* The page-wide fallbacks: the first tel: / mailto: link of the document.
PageWidePhoneNone(all) == None
PageWidePhone(all) ==
    LET i == FirstIndex({p \in 1..Len(all) : IsTelLink(all[p])})
    IN  IF i # 0 THEN Some(AfterFirstColon(all[i].href[1])) ELSE None
PageWideEmail(all) ==
    LET i == FirstIndex({p \in 1..Len(all) : IsMailtoLink(all[p])})
    IN  IF i # 0 THEN Some(AfterFirstColon(all[i].href[1])) ELSE None

PublisherName(all) ==
    LET a == AgencyElement(all, 1)
    IN  IF a # 0 THEN AgencyName(all[a]) ELSE None

PublisherPhone(all) ==
    LET a == AgencyElement(all, 1)
        inCard == IF a # 0 THEN AgencyPhone(all[a]) ELSE None
        wide == PageWidePhone(all)
    IN  IF ~Falsy(inCard) THEN inCard
        ELSE IF wide # None THEN wide
        ELSE inCard

PublisherEmail(all) ==
    LET a == AgencyElement(all, 1)
        inCard == IF a # 0 THEN AgencyEmail(all[a]) ELSE None
        wide == PageWideEmail(all)
    IN  IF ~Falsy(inCard) THEN inCard
        ELSE IF wide # None THEN wide
        ELSE inCard

\* The raw text of a document whose parse is `nodes`: each element as its
\* start tag with its attributes, its own text, the elements inside it and
\* its end tag.  Tag and attribute names and class names are opaque tokens.
RECURSIVE Render(_)
Render(nodes) ==
    IF nodes = <<>> THEN <<>>
    ELSE LET n == nodes[1]
             attr(name, opt) == IF opt = NoAttr THEN <<>> ELSE <<name>> \o opt[1]
             classes == CHOOSE s \in IterationOrders(n.cls) : TRUE
         IN  <<"<", n.tag>>
             \o (IF n.dt = "" THEN <<>> ELSE <<"data-test=", n.dt>>)
             \o (IF n.cls = {} THEN <<>> ELSE <<"class=">> \o classes)
             \o attr("href=", n.href) \o attr("src=", n.src)
             \o attr("data-src=", n.dsrc)
             \o <<">">> \o n.text \o Render(n.kids) \o <<"</", n.tag, ">">>
             \o Render(Tail(nodes))

\* (19|20)\d{2} matched at position i of t.
YearAt(t, i) ==
    /\ i + 3 <= Len(t)
    /\ <<t[i], t[i + 1]>> \in {<<"1", "9">>, <<"2", "0">>}
    /\ IsDigit(t[i + 2])
    /\ IsDigit(t[i + 3])

\* The first position from i on that holds no white space (\s+ is greedy and
\* what follows it in the pattern is never white space).
RECURSIVE SkipSpaces(_, _)
SkipSpaces(t, i) ==
    IF i <= Len(t) /\ IsSpace(t[i]) THEN SkipSpaces(t, i + 1) ELSE i

\* Construction\s+en\s+ matched at position i: the position that follows the
\* match, 0 when it does not match there.
PrefixEnd(t, i) ==
    IF t[i] = "Construction" /\ i + 1 <= Len(t) /\ IsSpace(t[i + 1])
    THEN LET j == SkipSpaces(t, i + 1)
         IN  IF j + 1 <= Len(t) /\ t[j] = "en" /\ IsSpace(t[j + 1])
             THEN SkipSpaces(t, j + 1) ELSE 0
    ELSE 0

\* (Construction\s+en\s+)?(19|20)\d{2} matched at position i: the position of
\* the last character of the match, 0 when it does not match there.  The
\* optional group is tried first.
MatchEnd(t, i) ==
    LET j == PrefixEnd(t, i)
    IN  IF j # 0 /\ YearAt(t, j) THEN j + 3
        ELSE IF YearAt(t, i) THEN i + 3
        ELSE 0

\* The same search returning the rightmost match.
YearMatchStartLast(t) ==
    LET starts == {i \in 1..Len(t) : MatchEnd(t, i) # 0}
    IN  IF starts = {} THEN 0 ELSE CHOOSE i \in starts : \A k \in starts : k <= i

\* re.search(...): the leftmost position where the pattern matches, 0 when
\* it matches nowhere.
YearMatchStart(t) == FirstIndex({i \in 1..Len(t) : MatchEnd(t, i) # 0})

\* str.split()[-1] of a text that holds something else than white space: its
\* last run of characters that are not white space.
SplitLast(g) ==
    LET s == DropTrailingSpaces(g)
        spaces == {p \in 1..Len(s) : IsSpace(s[p])}
        last == IF spaces = {} THEN 0 ELSE CHOOSE p \in spaces : \A k \in spaces : k <= p
    IN  SubSeq(s, last + 1, Len(s))

\* construction_date = None; year_match = re.search(..., html);
\* if year_match: construction_date = year_match.group(0).split()[-1]
ConstructionDate(raw) ==
    LET i == YearMatchStart(raw)
    IN  IF i # 0 THEN Some(SplitLast(SubSeq(raw, i, MatchEnd(raw, i)))) ELSE None

\* data = {...}
ListingRecord(raw, nodes, s) ==
    LET all == Flatten(nodes)
    IN  [title |-> PageTitle(all, s),
         description |-> PageDescription(all),
         price |-> PagePrice(all, s),
         location |-> PageLocation(all, s),
         photos |-> CollectPhotos(all, s.photos),
         construction_date |-> ConstructionDate(raw),
         publisher_name |-> PublisherName(all),
         publisher_email |-> PublisherEmail(all),
         publisher_phone |-> PublisherPhone(all),
         url |-> s.url]

\* Sample markup of a detail page.
SamplePhoneText == <<"0", "1", " ", "4", "5", " ", "6", "7">>
SampleAgencies ==
    { [[El("div", <<>>) EXCEPT !.dt = "sl-contact-info"] EXCEPT !.kids =
          << El("h3", <<"Agence", " ", "Dupont">>),
             El("span", SamplePhoneText),
             [El("a", <<"mail">>) EXCEPT !.href = Some(<<"mailto:", "a@agence.fr">>)] >>],
      [[El("div", <<>>) EXCEPT !.cls = {"AgencyCard"}] EXCEPT !.kids =
          << El("h2", <<"Agence", " ", "Vide">>) >>] }

SamplePageNodes ==
    SampleAgencies \cup
    { El("h1", <<"Bel", " ", "appartement">>),
      [El("div", <<"Lumineux">>) EXCEPT !.cls = {"Description"}],
      [El("a", <<"appeler">>) EXCEPT !.href = Some(<<"tel:", "0145">>)],
      [El("a", <<"ecrire">>) EXCEPT !.href = Some(<<"mailto:", "b@page.fr">>)],
      El("span", <<"2", "5", "0", " ", "€">>),
      El("span", <<"3", " ", "pieces", " ", "9", "0", " ", "€">>),
      El("span", <<"2", "\n", "5", " ", "€">>) }

SampleSummaries ==
    {[title |-> <<"Appartement">>,
      url |-> <<"https:", "/", "/", "www.seloger.com", "/", "annonces/1.htm">>,
      location |-> l, price |-> pr, photos |-> <<>>] :
        l \in {None, Some(<<"Paris">>)}, pr \in {None, Some(100)}}

InitDetail ==
    /\ page \in SeqsUpTo(SamplePageNodes, MaxPageNodes)
    /\ html = Render(page)
    /\ summary \in SampleSummaries
    /\ record = None
    /\ lpc = "ready"

IdleDetail ==
    /\ html = <<>>
    /\ page = <<>>
    /\ summary = None
    /\ record = None
    /\ lpc = "idle"

\* _parse_listing_page(html, summary)
ParseListingPage ==
    /\ lpc = "ready"
    /\ record' = ListingRecord(html, page, summary)
    /\ lpc' = "done"
    /\ UNCHANGED <<html, page, summary>>
    /\ UNCHANGED <<orchVars, deltaVars, sumVars, mainVars>>

NextDetail == ParseListingPage

(***************************************************************************)
(* Sample markup for the fields that have several lookups: title and       *)
(* location of a card, location and description of a detail page.          *)
(***************************************************************************)
Blank == <<" ", "\n">>

SampleCardFieldNodes ==
    { El("h2", <<"Titre", " ", "h2">>),
      El("h3", <<"Titre", " ", "h3">>),
      El("h4", Blank),
      [El("a", <<"Titre", " ", "lien">>) EXCEPT !.dt = "sl-card-title"],
      [El("span", <<"Lyon">>) EXCEPT !.dt = "sl-card-location"],
      [El("span", Blank) EXCEPT !.dt = "location"],
      [El("p", <<"Nice">>) EXCEPT !.cls = {"Location"}] }

SamplePageFieldNodes ==
    { [El("span", <<"Lyon">>) EXCEPT !.dt = "location"],
      [El("span", Blank) EXCEPT !.dt = "sl-card-location"],
      [El("p", <<"Nice">>) EXCEPT !.cls = {"Adresse"}],
      [El("div", <<"Prix", " ", "et", " ", "texte">>) EXCEPT !.dt = "sl-price-description"],
      [El("div", <<"Lumineux">>) EXCEPT !.cls = {"Description"}],
      [El("div", Blank) EXCEPT !.cls = {"Description"}],
      [El("section", <<"Calme">>) EXCEPT !.dt = "sl-description"],
      [El("div", <<"Ancien">>) EXCEPT !.cls = {"c-pa-list-details__text"}] }

\* A search page of one old-style card: a link, then the field elements.
InitSummaryFields ==
    /\ \E fs \in SeqsUpTo(SampleCardFieldNodes, MaxFieldNodes) :
          doc = << [[El("div", <<>>) EXCEPT !.cls = {"c-pa-list"}] EXCEPT !.kids =
                       << Link(<<"/", "annonces/1.htm">>) >> \o fs] >>
    /\ cards = <<>>
    /\ cardIdx = 0
    /\ listings = <<>>
    /\ keptCards = <<>>
    /\ raisedCards = {}
    /\ spc = "select"

InitDetailFields ==
    /\ page \in SeqsUpTo(SamplePageFieldNodes, MaxFieldNodes)
    /\ html = Render(page)
    /\ summary \in SampleSummaries
    /\ record = None
    /\ lpc = "ready"

(***************************************************************************)
(* Sample detail pages for the construction year: elements whose text or   *)
(* attributes hold digit runs, inside a document that may begin and end    *)
(* with a comment the parse keeps no element for.                          *)
(***************************************************************************)
SampleYearNodes ==
    { El("p", <<"1", "9", "9", "0">>),
      El("span", <<"Construction", " ", "en", " ", "\n", "2", "0", "1", "5">>),
      El("p", <<"Construction", " ", "en", " ", "cours">>),
      El("p", <<"1", "2", "0", "1", "9", "5">>),
      El("p", <<"1", "8", "9", "9", " ", "2", "1", "0", "0">>),
      [El("a", <<"appeler">>) EXCEPT !.href = Some(<<"tel:", "2", "0", "9", "9", "1">>)],
      El("span", <<"9", "5", " ", "0", "0", "0", " ", "€">>) }

SampleComments == {<<>>, <<"<!--", "2", "0", "2", "4", "-->">>}

InitDetailYears ==
    /\ page \in SeqsUpTo(SampleYearNodes, MaxYearNodes)
    /\ \E pre \in SampleComments, post \in SampleComments :
          html = pre \o Render(page) \o post
    /\ summary \in SampleSummaries
    /\ record = None
    /\ lpc = "ready"

(***************************************************************************)
(* The run: main of runner.py with read_previous_listings and              *)
(* export_listings, run after run on the same file system.                 *)
(***************************************************************************)
\* What a path holds: nothing, a JSON document that is a list of listings,
\* a JSON document that is not a list, a CSV or HTML export, or the start of
\* a file whose writing failed.
Missing == [kind |-> "missing", data |-> <<>>]
JsonList(l) == [kind |-> "json_list", data |-> l]
JsonOther == [kind |-> "json_other", data |-> <<>>]
Partial == [kind |-> "partial", data |-> <<>>]

\* --output: its default, data/output.json.
ArgsOutput == "data/output.json"
Paths == {ArgsOutput, "custom.json"}

\* The listings a scrape returns.
SampleListings ==
    { <<>>,
      <<[url |-> "a", tag |-> 1]>>,
      <<[url |-> "a", tag |-> 1], [url |-> "b", tag |-> 1]>>,
      <<[url |-> "b", tag |-> 1], [url |-> "c", tag |-> 1]>> }

\* The settings of a configuration file: delta_mode, output_format (lower
\* case), output_path and previous_output_path (None when absent or empty).
SampleConfigs ==
    [delta_mode : BOOLEAN,
     output_format : {"json", "csv", "html", "xml"},
     output_path : {None, Some("custom.json")},
     previous_output_path : {None, Some(ArgsOutput)}]

\* output_path = config.get("output_path") or args.output
OutputPath(cfg) ==
    IF cfg.output_path # None THEN cfg.output_path[1] ELSE ArgsOutput

\* previous_output_path = config.get("previous_output_path") or output_path
PreviousOutputPath(cfg) ==
    IF cfg.previous_output_path # None THEN cfg.previous_output_path[1]
    ELSE OutputPath(cfg)

\* read_previous_listings(path), given what the path holds: [] when the file
\* does not exist, when its JSON is not a list and when reading it raises.
read_previous_listings(content) ==
    CASE content.kind = "missing" -> <<>>
      [] content.kind = "json_list" -> content.data
      [] content.kind = "json_other" -> <<>>
      [] OTHER -> <<>>

\* export_listings raises ValueError for a format other than these.
SupportedFormats == {"json", "csv", "html"}

\* What _export_json, _export_csv and _export_html leave at the path.
Exported(fmt, payload) ==
    IF fmt = "json" THEN JsonList(payload) ELSE [kind |-> fmt, data |-> payload]

\* The export that starts before the delta block has run.
MayExportAnytime(position, cfg, delta_pc) ==
    position \in {"scraped", "delta"}

\* main reaches the export (lines 184-188) after the delta block when
\* delta_mode is set, right after the scrape otherwise.
MayExport(position, cfg, delta_pc) ==
    \/ position = "scraped" /\ ~cfg.delta_mode
    \/ position = "delta" /\ delta_pc = "done"

\* result_payload: deltas["current"] in delta mode, the listings otherwise.
ResultPayload ==
    IF dpc = "done" THEN delta.current ELSE main_listings

NoConfig == [delta_mode |-> FALSE, output_format |-> "json",
             output_path |-> None, previous_output_path |-> None]

InitMain ==
    /\ files \in [Paths -> {Missing, JsonOther, JsonList(<<[url |-> "a", tag |-> 2]>>)}]
    /\ config = NoConfig
    /\ main_listings = <<>>
    /\ mpc = "idle"
    /\ runs = 0
    /\ filesAtStart = files
    /\ exportedThisRun = FALSE

IdleMain ==
    /\ files = [p \in Paths |-> Missing]
    /\ config = NoConfig
    /\ main_listings = <<>>
    /\ mpc = "idle"
    /\ runs = 0
    /\ filesAtStart = files
    /\ exportedThisRun = FALSE

\* A run starts: parse_args, load_config, the settings are read (118-134).
StartRun ==
    /\ mpc \in {"idle", "done", "exit1"}
    /\ runs < MaxRuns
    /\ runs' = runs + 1
    /\ config' \in SampleConfigs
    /\ main_listings' = <<>>
    /\ mpc' = "configured"
    /\ filesAtStart' = files
    /\ exportedThisRun' = FALSE
    /\ previous' = <<>>
    /\ current' = <<>>
    /\ delta' = None
    /\ dpc' = "idle"
    /\ UNCHANGED files
    /\ UNCHANGED <<orchVars, sumVars, detVars>>

\* load_config raises, or no start url is found: SystemExit(1) (121-143).
StartFails ==
    /\ mpc \in {"idle", "done", "exit1"}
    /\ runs < MaxRuns
    /\ runs' = runs + 1
    /\ config' = NoConfig
    /\ main_listings' = <<>>
    /\ mpc' = "exit1"
    /\ filesAtStart' = files
    /\ exportedThisRun' = FALSE
    /\ previous' = <<>>
    /\ current' = <<>>
    /\ delta' = None
    /\ dpc' = "idle"
    /\ UNCHANGED files
    /\ UNCHANGED <<orchVars, sumVars, detVars>>

\* listings = scraper.scrape(...) (158-170)
Scrape ==
    /\ mpc = "configured"
    /\ main_listings' \in SampleListings
    /\ mpc' = "scraped"
    /\ UNCHANGED <<files, config, runs, filesAtStart, exportedThisRun>>
    /\ UNCHANGED <<orchVars, deltaVars, sumVars, detVars>>

\* scraper.scrape raises: SystemExit(1) (160-162)
ScrapeFails ==
    /\ mpc = "configured"
    /\ mpc' = "exit1"
    /\ UNCHANGED <<files, config, main_listings, runs, filesAtStart, exportedThisRun>>
    /\ UNCHANGED <<orchVars, deltaVars, sumVars, detVars>>

\* if delta_mode: previous_listings = read_previous_listings(...), and the
\* call of compute_delta(previous_listings, listings) begins (172-174).
ReadPrevious ==
    /\ mpc = "scraped"
    /\ config.delta_mode
    /\ previous' = read_previous_listings(files[PreviousOutputPath(config)])
    /\ current' = main_listings
    /\ delta' = None
    /\ dpc' = "ready"
    /\ mpc' = "delta"
    /\ UNCHANGED <<files, config, main_listings, runs, filesAtStart, exportedThisRun>>
    /\ UNCHANGED <<orchVars, sumVars, detVars>>

\* export_listings(result_payload, output_path, output_format) writes the
\* file (184-195).
Export ==
    /\ MayExport(mpc, config, dpc)
    /\ config.output_format \in SupportedFormats
    /\ files' = [files EXCEPT ![OutputPath(config)] =
                     Exported(config.output_format, ResultPayload)]
    /\ exportedThisRun' = TRUE
    /\ mpc' = "done"
    /\ UNCHANGED <<config, main_listings, runs, filesAtStart>>
    /\ UNCHANGED <<orchVars, deltaVars, sumVars, detVars>>

\* export_listings raises before it opens the file (os.makedirs fails, or
\* the format is not supported): SystemExit(1) (186-188).
ExportRaises ==
    /\ MayExport(mpc, config, dpc)
    /\ mpc' = "exit1"
    /\ UNCHANGED <<files, config, main_listings, runs, filesAtStart, exportedThisRun>>
    /\ UNCHANGED <<orchVars, deltaVars, sumVars, detVars>>

\* export_listings raises while it writes the file it has opened:
\* SystemExit(1) (186-188).
ExportBreaks ==
    /\ MayExport(mpc, config, dpc)
    /\ config.output_format \in SupportedFormats
    /\ files' = [files EXCEPT ![OutputPath(config)] = Partial]
    /\ exportedThisRun' = TRUE
    /\ mpc' = "exit1"
    /\ UNCHANGED <<config, main_listings, runs, filesAtStart>>
    /\ UNCHANGED <<orchVars, deltaVars, sumVars, detVars>>

NextMain ==
    \/ StartRun
    \/ StartFails
    \/ Scrape
    \/ ScrapeFails
    \/ ReadPrevious
    \/ ComputeDelta
    \/ Export
    \/ ExportRaises
    \/ ExportBreaks

(***************************************************************************)
(* Specifications.                                                         *)
(***************************************************************************)
Init == InitOrch /\ IdleDelta /\ IdleSummary /\ IdleDetail /\ IdleMain

Next == NextOrch
Spec == Init /\ [][Next]_vars

InitDeltaOnly == IdleOrch /\ InitDelta /\ IdleSummary /\ IdleDetail /\ IdleMain
SpecDelta == InitDeltaOnly /\ [][NextDelta]_vars

InitSummaryOnly == IdleOrch /\ IdleDelta /\ InitSummary /\ IdleDetail /\ IdleMain
SpecSummary == InitSummaryOnly /\ [][NextSummary]_vars

InitDetailOnly == IdleOrch /\ IdleDelta /\ IdleSummary /\ InitDetail /\ IdleMain
SpecDetail == InitDetailOnly /\ [][NextDetail]_vars

InitYearsOnly == IdleOrch /\ IdleDelta /\ IdleSummary /\ InitDetailYears /\ IdleMain
SpecYears == InitYearsOnly /\ [][NextDetail]_vars

InitMainOnly == IdleOrch /\ IdleDelta /\ IdleSummary /\ IdleDetail /\ InitMain
SpecMain == InitMainOnly /\ [][NextMain]_vars

\* Either extractor run on markup that exercises the multi-lookup fields.
InitFields ==
    /\ IdleOrch
    /\ IdleDelta
    /\ \/ InitSummaryFields /\ IdleDetail
       \/ IdleSummary /\ InitDetailFields
    /\ IdleMain
NextFields == NextSummary \/ NextDetail
SpecFields == InitFields /\ [][NextFields]_vars

(***************************************************************************)
(* Properties of the enrichment orchestrator.                              *)
(***************************************************************************)

\* C1: whatever the summaries, the cap and the set F of summaries whose fetch
\* or parse fails, and under every interleaving, no failure reaches the
\* caller, and the returned list holds exactly one record for each summary
\* outside F and none for a summary in F (N - |F| records), the fetch having
\* been called exactly once per summary.
C1_FailuresDroppedOthersKept ==
    /\ pc # "raised"
    /\ pc = "returned" =>
        /\ Len(results) = Len(summaries) - Cardinality(failed)
        /\ \A i \in Tasks \ failed :
              Cardinality({k \in 1..Len(results) : results[k] = DetailRecord(i)}) = 1
        /\ \A k \in 1..Len(results) :
              results[k].kind = "dict" /\ results[k].task \in Tasks \ failed
        /\ \A i \in Tasks : fetchCalls[i] = 1

\* A run that returned with some, but not all, summaries failing, and more
\* summaries than workers.
C1_Witness ==
    /\ pc = "returned"
    /\ failed # {}
    /\ failed # Tasks
    /\ Len(summaries) > max_workers

\* C2: at no time are more than max_workers tasks fetching or parsing.
C2_AtMostWRunning == Cardinality(Running) <= max_workers

\* More summaries than workers, every worker busy and a task still waiting.
C2_Witness ==
    /\ Len(summaries) > max_workers
    /\ Cardinality(Running) = max_workers
    /\ workQueue # <<>>

\* C3: when _deep_scrape_summaries returns, every submitted task has finished
\* and the record of every successful task is already in the result list.
C3_ReturnsAfterAllTasks ==
    pc = "returned" =>
        \A i \in Tasks :
            /\ phase[i] = "finished"
            /\ future[i].state # "pending"
            /\ i \notin failed => \E k \in 1..Len(results) : results[k] = DetailRecord(i)

\* A return after several tasks, at least one of them successful.
C3_Witness ==
    /\ pc = "returned"
    /\ Len(summaries) >= 2
    /\ failed # Tasks

(***************************************************************************)
(* Properties of the delta engine.                                         *)
(***************************************************************************)
\* The urls a list is indexed under: those of its records that have one.
KeyedUrls(items) == {items[i].url : i \in {j \in 1..Len(items) : items[j].url \notin {NoneUrl, ""}}}

\* The records of `items` that have a url which `others` does not index.
RecordsAbsentFrom(items, others) ==
    {items[i] : i \in {j \in 1..Len(items) :
                          /\ items[j].url \notin {NoneUrl, ""}
                          /\ items[j].url \notin KeyedUrls(others)}}

\* Of those, the ones no later record of `items` shares its url with.
LastRecordsAbsentFrom(items, others) ==
    {items[i] : i \in {j \in 1..Len(items) :
                          /\ items[j].url \notin {NoneUrl, ""}
                          /\ items[j].url \notin KeyedUrls(others)
                          /\ \A l \in (j + 1)..Len(items) : items[l].url # items[j].url}}

OnePerUrl(list) ==
    \A k1, k2 \in 1..Len(list) : list[k1].url = list[k2].url => k1 = k2

\* C4 as stated: `new` is exactly the current records that have a url absent
\* from previous, `removed` exactly the previous records that have a url
\* absent from current, url-less records are in neither, and `current` is
\* the current list unchanged.
C4_Original ==
    dpc = "done" =>
        /\ Range(delta.new) = RecordsAbsentFrom(current, previous)
        /\ Range(delta.removed) = RecordsAbsentFrom(previous, current)
        /\ delta.current = current

\* C4 amended: `new` holds one record per url that current indexes and
\* previous does not, namely the last current record with that url;
\* `removed` likewise for previous against current; url-less records are in
\* neither; `current` is the current list unchanged.
C4_DeltaOfIndexedUrls ==
    dpc = "done" =>
        /\ Range(delta.new) = LastRecordsAbsentFrom(current, previous)
        /\ Range(delta.removed) = LastRecordsAbsentFrom(previous, current)
        /\ OnePerUrl(delta.new)
        /\ OnePerUrl(delta.removed)
        /\ \A r \in Range(delta.new) \cup Range(delta.removed) : r.url \notin {NoneUrl, ""}
        /\ delta.current = current

\* A delta with a new and a removed record, a url-less current record, and a
\* url shared by both lists.
C4_Witness ==
    /\ dpc = "done"
    /\ delta.new # <<>>
    /\ delta.removed # <<>>
    /\ \E i \in 1..Len(current) : current[i].url \in {NoneUrl, ""}
    /\ KeyedUrls(current) \cap KeyedUrls(previous) # {}

(***************************************************************************)
(* Properties of the summary extractor.                                    *)
(***************************************************************************)
IsAnchorWithHref(n) == n.tag = "a" /\ n.href # NoAttr

\* The card has some link whose href is not empty.
HasNonEmptyHref(card) ==
    \E i \in 1..Len(card.kids) :
        IsAnchorWithHref(card.kids[i]) /\ card.kids[i].href[1] # <<>>

\* The first link of the card that carries an href has a non-empty one.
FirstHrefNonEmpty(card) ==
    \E i \in 1..Len(card.kids) :
        /\ IsAnchorWithHref(card.kids[i])
        /\ card.kids[i].href[1] # <<>>
        /\ \A j \in 1..(i - 1) : ~IsAnchorWithHref(card.kids[j])

\* C5 as stated: the output is exactly the subsequence, in document order,
\* of the matched cards that have a link with an href and did not raise.
\* (Read in the claim's favour: a link with a non-empty href.)
C5_Original ==
    spc = "returned" =>
        keptCards = SelectSeq(cards, LAMBDA c :
                        HasNonEmptyHref(doc[c]) /\ c \notin raisedCards)

\* C5 amended: the output is exactly the subsequence, in document order, of
\* the matched cards whose first link carrying an href attribute has a
\* non-empty href and whose processing raised nothing; every other card is
\* omitted and stops no card before or after it from being returned.
C5_KeptCardsAreFirstHrefCards ==
    spc = "returned" =>
        /\ keptCards = SelectSeq(cards, LAMBDA c :
                          FirstHrefNonEmpty(doc[c]) /\ c \notin raisedCards)
        /\ Len(listings) = Len(keptCards)

\* A run that kept a card after dropping a link-less (or empty-href) card
\* and after a card that raised.
C5_Witness ==
    /\ spc = "returned"
    /\ keptCards # <<>>
    /\ \E c \in raisedCards : c < keptCards[Len(keptCards)]
    /\ \E k \in 1..Len(cards) :
          /\ ~FirstHrefNonEmpty(doc[cards[k]])
          /\ cards[k] \notin raisedCards
          /\ cards[k] < keptCards[Len(keptCards)]

IsAbsolute(url) ==
    /\ Len(url) >= 4
    /\ url[1] \in {"http:", "https:"}
    /\ url[2] = "/"
    /\ url[3] = "/"

\* C6: every retained summary has a non-empty, absolute url, whatever the
\* href of the card's first link.
C6_RetainedUrlAbsolute ==
    \A k \in 1..Len(listings) :
        listings[k].url # <<>> /\ IsAbsolute(listings[k].url)

\* C9: the cards processed are exactly the matches of the first selector, in
\* order, that matches anything, each once; elements only later selectors
\* match are left out; with no match at all the result is the empty
\* sequence.
C9_FirstMatchingSelectorOnly ==
    spc \in {"loop", "returned"} =>
        \/ /\ \A k \in 1..NumSelectors : \A i \in 1..Len(doc) : ~MatchesSelector(k, doc[i])
           /\ cards = <<>>
           /\ spc = "returned"
           /\ listings = <<>>
        \/ \E k \in 1..NumSelectors :
              /\ \E i \in 1..Len(doc) : MatchesSelector(k, doc[i])
              /\ \A j \in 1..(k - 1) : \A i \in 1..Len(doc) : ~MatchesSelector(j, doc[i])
              /\ Range(cards) = {i \in 1..Len(doc) : MatchesSelector(k, doc[i])}
              /\ \A a, b \in 1..Len(cards) : a < b => cards[a] < cards[b]
              /\ Range(keptCards) \cup raisedCards \subseteq Range(cards)

\* A page where a later selector matches an element the first matching
\* selector does not, and a summary was returned.
C9_Witness ==
    /\ spc = "returned"
    /\ listings # <<>>
    /\ \E i \in 1..Len(doc) :
          /\ i \notin Range(cards)
          /\ \E k \in 1..NumSelectors : MatchesSelector(k, doc[i])

(***************************************************************************)
(* Properties of the detail extractor.                                     *)
(***************************************************************************)
PageElements == Flatten(page)

IsAgencyContainer(n) ==
    /\ n.tag = "div"
    /\ \/ n.dt \in {"sl-contact-info", "agency-card"}
       \/ "AgencyCard" \in n.cls

NoAgencyContainer == \A i \in 1..Len(PageElements) : ~IsAgencyContainer(PageElements[i])

IsLinkTo(n, schemes) ==
    n.tag = "a" /\ n.href # NoAttr /\ \E i \in 1..Len(n.href[1]) : n.href[1][i] \in schemes

\* The optional text o is the target of the first link of the page whose
\* href names one of the schemes, or nothing when the page has no such link.
IsFirstTargetOrNothing(o, schemes) ==
    LET links == {i \in 1..Len(PageElements) : IsLinkTo(PageElements[i], schemes)}
    IN  /\ links = {} => o = None
        /\ \A i \in links :
              (\A j \in links : i <= j) => o = Some(AfterFirstColon(PageElements[i].href[1]))

\* Title, description and price come from their own lookups, whatever the
\* agency markup: without a lookup hit, the summary's value or the default.
FieldsFallBack ==
    /\ (\A i \in 1..Len(PageElements) : PageElements[i].tag # "h1")
          => record.title = summary.title
    /\ (\A i \in 1..Len(PageElements) : \A k \in 1..NumDescriptionLookups :
              ~MatchesDescription(k, PageElements[i]))
          => record.description = <<>>
    /\ (\A i \in 1..Len(PageElements) : ~MatchesPrice(PageElements[i].text))
          => record.price = summary.price
    /\ record.url = summary.url

\* C8 as stated: on a page without any agency container the record has its
\* title, price and description resolved and the three publisher fields are
\* nothing.
C8_Original ==
    (lpc = "done" /\ NoAgencyContainer) =>
        /\ FieldsFallBack
        /\ record.publisher_name = None
        /\ record.publisher_email = None
        /\ record.publisher_phone = None

\* C8 amended: on a page without any agency container the record has its
\* title, price and description resolved, publisher_name is nothing, and
\* publisher_phone / publisher_email are the target of the page's first
\* tel: / mailto: link, nothing only when the page has no such link.
C8_PublisherFromPageWideLinks ==
    (lpc = "done" /\ NoAgencyContainer) =>
        /\ FieldsFallBack
        /\ record.publisher_name = None
        /\ IsFirstTargetOrNothing(record.publisher_phone, {"tel:", "TEL:"})
        /\ IsFirstTargetOrNothing(record.publisher_email, {"mailto:", "MAILTO:"})

\* A page with a heading and a tel: link but no agency container.
C8_Witness ==
    /\ lpc = "done"
    /\ NoAgencyContainer
    /\ \E i \in 1..Len(PageElements) : PageElements[i].tag = "h1"
    /\ \E i \in 1..Len(PageElements) : IsLinkTo(PageElements[i], {"tel:", "TEL:"})
    /\ record.publisher_email = None

\* Where the pattern \d[\d\s]*€ first matches in a text: at the first digit
\* whose run of digits and white space ends at a euro sign.
StartsCurrencyRun(t, i) ==
    /\ IsDigit(t[i])
    /\ \E j \in (i + 1)..Len(t) :
          /\ t[j] = "€"
          /\ \A k \in (i + 1)..(j - 1) : IsDigit(t[k]) \/ IsSpace(t[k])

\* The digits of that run, separators included.
CurrencyRun(t) ==
    LET i == CHOOSE a \in 1..Len(t) :
                 StartsCurrencyRun(t, a) /\ \A b \in 1..(a - 1) : ~StartsCurrencyRun(t, b)
        j == CHOOSE e \in (i + 1)..Len(t) :
                 t[e] = "€" /\ \A k \in (i + 1)..(e - 1) : t[k] # "€"
    IN  SubSeq(t, i, j - 1)

\* C10: the record's price is the integer value of the first
\* currency-suffixed digit run of the page when there is one and it parses,
\* and the summary's price in every other case.
C10_PriceOrSummaryPrice ==
    lpc = "done" =>
        LET hits == {i \in 1..Len(PageElements) : MatchesPrice(PageElements[i].text)}
            first == CHOOSE i \in hits : \A j \in hits : i <= j
            value == IntOf(RemoveSeparators(CurrencyRun(PageElements[first].text)))
        IN  IF hits # {} /\ value # None
            THEN record.price = value
            ELSE record.price = summary.price

(***************************************************************************)
(* Properties of field resolution.  A field's lookups are given as the     *)
(* sequence, in declared order, of the sets of positions each one matches. *)
(***************************************************************************)
\* What a lookup yields: the normalized text of the first element it matches.
LookupText(nodes, positions) ==
    clean_text(nodes[CHOOSE i \in positions : \A j \in positions : i <= j].text)

\* The text of the first lookup, in declared order, that yields non-empty
\* text; nothing when none does.
FirstNonEmptyText(nodes, lookups) ==
    LET good == {k \in 1..Len(lookups) :
                    lookups[k] # {} /\ LookupText(nodes, lookups[k]) # <<>>}
    IN  IF good = {} THEN None
        ELSE Some(LookupText(nodes, lookups[CHOOSE k \in good : \A l \in good : k <= l]))

\* The text of the first lookup, in declared order, that matches an element
\* at all; nothing when none does.
FirstMatchText(nodes, lookups) ==
    LET hit == {k \in 1..Len(lookups) : lookups[k] # {}}
    IN  IF hit = {} THEN None
        ELSE Some(LookupText(nodes, lookups[CHOOSE k \in hit : \A l \in hit : k <= l]))

OrElse(opt, default) == IF opt = None THEN default ELSE opt[1]

Positions(nodes, tags, dts, classes) ==
    {i \in 1..Len(nodes) :
        /\ tags # {} => nodes[i].tag \in tags
        /\ dts # {} => nodes[i].dt \in dts
        /\ classes # {} => nodes[i].cls \cap classes # {}}

CardTitleLookups(kids) ==
    << Positions(kids, {"h2"}, {}, {}), Positions(kids, {"h3"}, {}, {}),
       Positions(kids, {"h4"}, {}, {}), Positions(kids, {"a"}, {"sl-card-title"}, {}) >>
CardLocationLookups(kids) ==
    << Positions(kids, {}, LocationDataTests, {}),
       Positions(kids, {"p"}, {}, LocationClasses) >>
PageLocationLookups(all) ==
    << Positions(all, {}, LocationDataTests, {}),
       Positions(all, {"p"}, {}, AddressClasses) >>
PageDescriptionLookups(all) ==
    << Positions(all, {}, {"sl-price-description"}, {}),
       Positions(all, {"div"}, {}, {"Description"}),
       Positions(all, {"section"}, {"sl-description"}, {}),
       Positions(all, {"div"}, {}, {"c-pa-list-details__text"}) >>

\* C7 as stated: each of these fields is the normalized text of the first
\* lookup in declared order that yields non-empty text, and the default
\* only if every lookup yields nothing.
C7_Original ==
    /\ spc = "returned" =>
          \A k \in 1..Len(listings) :
              LET kids == doc[keptCards[k]].kids
              IN  /\ listings[k].title =
                        OrElse(FirstNonEmptyText(kids, CardTitleLookups(kids)), DefaultTitle)
                  /\ listings[k].location =
                        FirstNonEmptyText(kids, CardLocationLookups(kids))
    /\ lpc = "done" =>
          /\ record.location =
                IF FirstNonEmptyText(PageElements, PageLocationLookups(PageElements)) = None
                THEN summary.location
                ELSE FirstNonEmptyText(PageElements, PageLocationLookups(PageElements))
          /\ record.description =
                OrElse(FirstNonEmptyText(PageElements, PageDescriptionLookups(PageElements)), <<>>)

\* C7 amended: a card's or page's location and a page's description are the
\* normalized text, empty or not, of the element found by the first lookup
\* in declared order that matches an element at all; a card's title is the
\* normalized text of the first element in document order that any title
\* lookup matches; the default stands only when no lookup matches anything.
C7_FirstMatchingLookupWins ==
    /\ spc = "returned" =>
          \A k \in 1..Len(listings) :
              LET kids == doc[keptCards[k]].kids
                  titles == UNION Range(CardTitleLookups(kids))
              IN  /\ listings[k].title =
                        OrElse(FirstMatchText(kids, <<titles>>), DefaultTitle)
                  /\ listings[k].location =
                        FirstMatchText(kids, CardLocationLookups(kids))
    /\ lpc = "done" =>
          /\ record.location =
                IF FirstMatchText(PageElements, PageLocationLookups(PageElements)) = None
                THEN summary.location
                ELSE FirstMatchText(PageElements, PageLocationLookups(PageElements))
          /\ record.description =
                OrElse(FirstMatchText(PageElements, PageDescriptionLookups(PageElements)), <<>>)

\* A page where a later description lookup matches an element that comes
\* first in the document, and the earlier lookup's element is the one used.
C7_Witness ==
    /\ lpc = "done"
    /\ Len(PageElements) = 2
    /\ MatchesDescription(2, PageElements[1])
    /\ MatchesDescription(1, PageElements[2])
    /\ record.description = clean_text(PageElements[2].text)
    /\ record.description # clean_text(PageElements[1].text)

(***************************************************************************)
(* Properties of the construction year of a detail page.                   *)
(***************************************************************************)
\* Four consecutive digits of t at position i that read as a number between
\* 1900 and 2099.
YearLikeAt(t, i) ==
    /\ i + 3 <= Len(t)
    /\ \A k \in i..(i + 3) : IsDigit(t[k])
    /\ LET y == 1000 * DigitValue(t[i]) + 100 * DigitValue(t[i + 1])
                 + 10 * DigitValue(t[i + 2]) + DigitValue(t[i + 3])
       IN  y >= 1900 /\ y <= 2099

YearLikePositions(t) == {i \in 1..Len(t) : YearLikeAt(t, i)}

YearLikeText(t, i) == SubSeq(t, i, i + 3)

FirstYearLike(t) == CHOOSE i \in YearLikePositions(t) : \A k \in YearLikePositions(t) : i <= k
LastYearLike(t) == CHOOSE i \in YearLikePositions(t) : \A k \in YearLikePositions(t) : k <= i

\* C11 as stated: the construction_date of the returned record is the last
\* year-like run of four digits (1900-2099) of the raw document text, as
\* four digits only, and nothing when the text holds none.
C11_Original ==
    lpc = "done" =>
        record.construction_date =
            IF YearLikePositions(html) = {} THEN None
            ELSE Some(YearLikeText(html, LastYearLike(html)))

\* C11, amended: the construction_date of the returned record is the first
\* year-like run of four digits (1900-2099) of the raw document text, as
\* four digits only and without a "Construction en" before it, and nothing
\* when the text holds none.
C11_FirstYearOfDocument ==
    lpc = "done" =>
        record.construction_date =
            IF YearLikePositions(html) = {} THEN None
            ELSE Some(YearLikeText(html, FirstYearLike(html)))

\* A parsed document with a "Construction en 2015" after another year: the
\* record holds the earlier year.
C11_Witness ==
    /\ lpc = "done"
    /\ Cardinality(YearLikePositions(html)) >= 2
    /\ YearLikeText(html, FirstYearLike(html)) # YearLikeText(html, LastYearLike(html))
    /\ \E i \in 1..Len(html) : PrefixEnd(html, i) # 0 /\ YearAt(html, PrefixEnd(html, i))
    /\ record.construction_date = Some(YearLikeText(html, FirstYearLike(html)))

(***************************************************************************)
(* Properties of the delta engine on lists that repeat a url.              *)
(***************************************************************************)
\* The positions of `items` that hold the url u.
PositionsOfUrl(items, u) == {i \in 1..Len(items) : items[i].url = u}

\* The urls that `items` holds at more than one position.
DuplicatedUrls(items) ==
    {items[i].url : i \in {j \in 1..Len(items) : Cardinality(PositionsOfUrl(items, items[j].url)) > 1}}

LastWithUrl(items, u) ==
    items[CHOOSE i \in PositionsOfUrl(items, u) : \A k \in PositionsOfUrl(items, u) : k <= i]

\* `out` holds at most one record per url and, for every url that `items`
\* repeats and `others` does not hold, no record but the last of `items`
\* with that url, and that one when the url is one the index keeps.
LastOccurrenceWins(out, items, others) ==
    /\ OnePerUrl(out)
    /\ \A u \in DuplicatedUrls(items) :
          PositionsOfUrl(others, u) = {} =>
              /\ \A k \in 1..Len(out) : out[k].url = u => out[k] = LastWithUrl(items, u)
              /\ u \notin {NoneUrl, ""} => \E k \in 1..Len(out) : out[k] = LastWithUrl(items, u)

\* C12: when a list holds the same url more than once, `new` and `removed`
\* hold at most one record per url, and for a repeated url that the other
\* list does not hold that record is the last occurrence in the current
\* list (for `new`) or in the previous list (for `removed`).
C12_LaterOccurrenceWins ==
    dpc = "done" =>
        /\ LastOccurrenceWins(delta.new, current, previous)
        /\ LastOccurrenceWins(delta.removed, previous, current)

\* A delta of two lists that each repeat a url of their own with two
\* different records: `new` and `removed` hold the later one of each.
C12_Witness ==
    /\ dpc = "done"
    /\ \E i, j \in 1..Len(current) :
          /\ i < j
          /\ current[i].url = current[j].url
          /\ current[i] # current[j]
          /\ PositionsOfUrl(previous, current[j].url) = {}
          /\ current[j] \in Range(delta.new)
          /\ current[i] \notin Range(delta.new)
    /\ \E i, j \in 1..Len(previous) :
          /\ i < j
          /\ previous[i].url = previous[j].url
          /\ previous[i] # previous[j]
          /\ PositionsOfUrl(current, previous[j].url) = {}
          /\ previous[j] \in Range(delta.removed)
          /\ previous[i] \notin Range(delta.removed)

(***************************************************************************)
(* Properties of the order of a run in delta mode.                         *)
(***************************************************************************)
\* C13: in a run with delta_mode set, the output file is written only after
\* the delta has been computed, and the previous listings the delta is
\* computed against are what read_previous_listings makes of the file at
\* previous_output_path as it was before the run started, also when that
\* path is the output path: never what the run itself has written.
C13_DeltaBeforeExport ==
    /\ (config.delta_mode /\ exportedThisRun) => dpc = "done"
    /\ dpc = "ready" => ~exportedThisRun
    /\ dpc \in {"ready", "done"} =>
          previous = read_previous_listings(filesAtStart[PreviousOutputPath(config)])

\* A second run in delta mode with no previous_output_path of its own: it
\* has replaced the export of the first run by its own, and its delta has
\* new and removed listings against the export of the first run.
C13_Witness ==
    /\ runs = 2
    /\ mpc = "done"
    /\ config.delta_mode
    /\ config.previous_output_path = None
    /\ exportedThisRun
    /\ filesAtStart[OutputPath(config)] =
          JsonList(<<[url |-> "a", tag |-> 1], [url |-> "b", tag |-> 1]>>)
    /\ files[OutputPath(config)] = JsonList(main_listings)
    /\ files[OutputPath(config)] # filesAtStart[OutputPath(config)]
    /\ previous = filesAtStart[OutputPath(config)].data
    /\ dpc = "done"
    /\ delta.new # <<>>
    /\ delta.removed # <<>>
====
